---- MODULE Spec2Model ----
(***************************************************************************)
(* Model of flashing_tool.py: the UpgradeTool session controller driving   *)
(* the interactive upgrade_tool through pexpect.                           *)
(*                                                                         *)
(* The tool's output is a sequence of tokens, one per piece of text the    *)
(* code looks for:                                                         *)
(*   Desc(n)      "DevNo=n Vid=0x..,Pid=0x..,LocationID=.."                *)
(*   FoundSel(n)  "Found n rockusb,Select input DevNo,"                    *)
(*   NoFound      "No found rockusb,"                                      *)
(*   Rescan       "Rescan press <R>,Quit press <Q>:"                       *)
(*   Rockusb      "Rockusb>"                                               *)
(*   LoaderOk     "Upgrade loader ok"                                      *)
(*   BootFail     "Download Boot Fail"                                     *)
(*   WriteFail    "Write LBA failed!"                                      *)
(*   Progress(p)  "Write LBA from file (p%)"                               *)
(* child.expect is modelled as pexpect does it: the earliest match in the  *)
(* unread buffer wins, child.before is the text in front of it and the     *)
(* buffer keeps what follows; a TIMEOUT listed in the patterns returns     *)
(* with the buffer untouched; an EOF listed in the patterns returns with   *)
(* the buffer emptied; an EOF that is not listed is raised.                *)
(***************************************************************************)
EXTENDS Integers, Sequences, FiniteSets, TLC

\* ---------------------------------------------------------------- bounds
MaxDev == 2
MaxProgress == 2

\* ---------------------------------------------------------------- state
VARIABLES
  pc,              \* position of run() in the code
  child_buffer,    \* output of the tool not yet consumed by an expect
  child_eof,       \* the tool closed its output
  child_before,    \* child.before of the latest expect
  output,          \* local `output` of initial_prompt (text before the first prompt)
  num_devices,     \* self.num_devices
  devices,         \* self.devices
  device,          \* position of the for loop of run() in self.devices
  last_percentage, \* local of writing_lba
  sent,            \* lines written by child.sendline, in order
  lastWait,        \* outcome of the latest expect since the latest sendline
  loaderWait,      \* per device: outcome of the expect of upgrade_loader
  loaderLog,       \* per device: what upgrade_loader logged
  writeLog,        \* per device: what write_lba / writing_lba logged
  session,         \* what run() logged about the session
  progress,        \* percentages written to stdout for the current device
  matched,         \* progress lines matched for the current device
  trackingEof,     \* an expect of writing_lba returned the EOF index
  discoveryEof,    \* the first expect of initial_prompt returned the EOF index
  pending,         \* tool: output produced but not yet written to the stream
  answered,        \* tool: number of received lines it has reacted to
  child_closed     \* self.child has been closed (child.close() was called)

vars == <<pc, child_buffer, child_eof, child_before, output, num_devices,
          devices, device, last_percentage, sent, lastWait, loaderWait,
          loaderLog, writeLog, session, progress, matched, trackingEof,
          discoveryEof, pending, answered, child_closed>>

ctlVars == <<pc, child_before, output, num_devices, devices, device,
             last_percentage, sent, lastWait, loaderWait, loaderLog, writeLog,
             session, progress, matched, trackingEof, discoveryEof,
             child_closed>>

\* ---------------------------------------------------------------- text
Tok(k, v) == [k |-> k, v |-> v]
EOFTok == Tok("EOF", 0)

HasTok(text, k) == \E i \in 1..Len(text) : text[i].k = k

\* Length of the match of pattern p at position i of buf, 0 when none.
MatchAt(p, buf, i) ==
  CASE p = "PROMPT"   -> IF buf[i].k = "Rescan" THEN 1 ELSE 0
    [] p = "FOUND"    -> IF buf[i].k = "FoundSel" /\ i < Len(buf) /\ buf[i + 1].k = "Rescan"
                         THEN 2 ELSE 0
    [] p = "ROCKUSB"  -> IF buf[i].k = "Rockusb" THEN 1 ELSE 0
    [] p = "PROGRESS" -> IF buf[i].k = "Progress" THEN 1 ELSE 0

HasMatch(buf, p) == \E i \in 1..Len(buf) : MatchAt(p, buf, i) > 0

FirstMatch(buf, p) ==
  CHOOSE i \in 1..Len(buf) :
    /\ MatchAt(p, buf, i) > 0
    /\ \A j \in 1..(i - 1) : MatchAt(p, buf, j) = 0

\* child.expect on a match: before, the matched text, and the new buffer.
expect(buf, p) ==
  LET i == FirstMatch(buf, p)
      n == MatchAt(p, buf, i)
  IN [before |-> SubSeq(buf, 1, i - 1),
      match  |-> SubSeq(buf, i, i + n - 1),
      rest   |-> SubSeq(buf, i + n, Len(buf))]

\* The dataclass, reduced to the field the controller sends.
RadxaDevice(devno) == [devno |-> devno]

\* re.findall of the descriptor pattern over the text, mapped to devices.
RECURSIVE parseDevices(_)
parseDevices(text) ==
  IF text = <<>> THEN <<>>
  ELSE IF Head(text).k = "Desc"
       THEN <<RadxaDevice(Head(text).v)>> \o parseDevices(Tail(text))
       ELSE parseDevices(Tail(text))

Cmd(c, arg, d) == [cmd |-> c, arg |-> arg, dev |-> d]

\* ---------------------------------------------------------------- the tool
\* Device numbers the tool lists, k devices: k, k-1, .., 1 (the order of the
\* list is not the order of the numbers).
Descending(k) == [i \in 1..k |-> k + 1 - i]
Enumerations == {Descending(k) : k \in 0..MaxDev}

\* Counts the tool reports in its count-and-prompt line after a rescan; they
\* need not agree with the number of descriptor lines.
ReportedCounts == {1, 2}

DescLines(e) == [i \in 1..Len(e) |-> Tok("Desc", e[i])]
EnumText(e, n) == DescLines(e) \o <<Tok("FoundSel", n), Tok("Rescan", 0)>>

RECURSIVE SeqsUpTo(_, _)
SeqsUpTo(S, n) ==
  IF n = 0 THEN {<<>>}
  ELSE LET shorter == SeqsUpTo(S, n - 1)
       IN shorter \cup {Append(s, x) : s \in shorter, x \in S}

\* Percentages the tool prints in its progress lines. The last script holds
\* a marker outside 0..100, which the pattern \(\d+%\) matches all the same.
Percentages == {40, 100}
ProgressLines ==
  {[i \in 1..Len(s) |-> Tok("Progress", s[i])] : s \in SeqsUpTo(Percentages, MaxProgress) \ {<<>>}}
    \cup {<<Tok("Progress", 150)>>}

InitialOutputs ==
  {<<EOFTok>>, <<Tok("NoFound", 0), Tok("Rescan", 0)>>}
    \cup {EnumText(e, Len(e)) : e \in Enumerations \ {<<>>}}
    \cup {EnumText(<<>>, 1)}
    \cup {<<Tok("Desc", 1), Tok("FoundSel", 1), EOFTok>>}

Responses(c) ==
  CASE c = "r"   -> {EnumText(e, n) : e \in Enumerations, n \in ReportedCounts}
                      \cup {<<Tok("NoFound", 0), Tok("Rescan", 0)>>, <<EOFTok>>}
    [] c = "sel" -> {<<Tok("Rockusb", 0)>>, <<>>, <<EOFTok>>}
    [] c = "ul"  -> {<<Tok("LoaderOk", 0), Tok("Rockusb", 0)>>,
                     <<Tok("BootFail", 0), Tok("Rockusb", 0)>>,
                     <<Tok("Rockusb", 0)>>,
                     <<Tok("LoaderOk", 0)>>,
                     <<>>,
                     <<EOFTok>>}
    [] c = "wl"  -> {<<Tok("WriteFail", 0), Tok("Rockusb", 0)>>,
                     <<Tok("WriteFail", 0)>>,
                     <<Tok("Rockusb", 0)>>,
                     <<>>,
                     <<EOFTok>>}
                      \cup {p \o <<Tok("Rockusb", 0)>> : p \in ProgressLines}
                      \cup {p \o <<EOFTok>> : p \in ProgressLines}
    [] c = "cd"  -> {<<Tok("Rescan", 0)>>, <<>>, <<EOFTok>>}

ToolAlive == ~child_eof /\ ~HasTok(pending, "EOF")

\* The tool reacts to the next line it received.
ToolRespond ==
  /\ ToolAlive
  /\ answered < Len(sent)
  /\ \E r \in Responses(sent[answered + 1].cmd) : pending' = pending \o r
  /\ answered' = answered + 1
  /\ UNCHANGED <<child_buffer, child_eof>>
  /\ UNCHANGED ctlVars

\* The output the tool produced reaches the stream, up to the point where
\* the tool closes it.
ToolEmit ==
  /\ ~child_eof
  /\ pending # <<>>
  /\ IF Head(pending).k = "EOF"
     THEN /\ child_eof' = TRUE
          /\ pending' = <<>>
          /\ UNCHANGED child_buffer
     ELSE /\ child_buffer' = child_buffer \o SelectSeq(pending, LAMBDA t : t.k # "EOF")
          /\ pending' = <<>>
          /\ child_eof' = HasTok(pending, "EOF")
  /\ UNCHANGED answered
  /\ UNCHANGED ctlVars

\* ---------------------------------------------------------------- Init
NoLog == [i \in 1..MaxDev |-> "none"]

Init ==
  /\ pc = "initial_expect"
  /\ child_buffer = <<>>
  /\ child_eof = FALSE
  /\ child_before = <<>>
  /\ output = <<>>
  /\ num_devices = 0
  /\ devices = <<>>
  /\ device = 0
  /\ last_percentage = -1
  /\ sent = <<>>
  /\ lastWait = "none"
  /\ loaderWait = NoLog
  /\ loaderLog = NoLog
  /\ writeLog = NoLog
  /\ session = "running"
  /\ progress = <<>>
  /\ matched = 0
  /\ trackingEof = FALSE
  /\ discoveryEof = FALSE
  /\ pending \in InitialOutputs
  /\ answered = 0
  /\ child_closed = FALSE

\* ---------------------------------------------------------------- waits
\* Outcomes child.expect([p, ...], timeout) can return or raise now: a match
\* when the buffer holds one, else end-of-stream when the tool closed its
\* output, else a timeout when the call has one; none of them: the call blocks.
WaitOutcomes(p, hasTimeout) ==
  IF HasMatch(child_buffer, p) THEN {"match"}
  ELSE IF child_eof THEN {"eof"}
  ELSE IF hasTimeout THEN {"timeout"}
  ELSE {}

WaitBefore(p, o) == IF o = "match" THEN expect(child_buffer, p).before ELSE child_buffer

WaitRest(p, o) ==
  CASE o = "match"   -> expect(child_buffer, p).rest
    [] o = "eof"     -> <<>>
    [] o = "timeout" -> child_buffer

\* The loop of run() left after its first device.
ForNext_first(i) ==
  IF i < 1 /\ i < Len(devices) THEN [pc |-> "select_send", device |-> i + 1]
                                ELSE [pc |-> "done", device |-> i]

\* The loop of run() taking the same device again instead of the next one.
ForNext_again(i) ==
  IF i < Len(devices) THEN [pc |-> "select_send", device |-> IF i = 0 THEN 1 ELSE i]
                      ELSE [pc |-> "done", device |-> i]

\* The for loop of run(): the device after position i, or the end of run().
ForNext(i) ==
  IF i < Len(devices) THEN [pc |-> "select_send", device |-> i + 1]
                      ELSE [pc |-> "done", device |-> i]

Advance(i) ==
  /\ pc' = ForNext(i).pc
  /\ device' = ForNext(i).device
  /\ session' = IF ForNext(i).pc = "done" THEN "completed" ELSE session

\* pexpect.EOF raised by an expect that does not list it: caught in run().
RaiseEOF ==
  /\ pc' = "done"
  /\ session' = "error"
  /\ UNCHANGED device

\* ---------------------------------------------------------------- discovery
\* initial_prompt up to the choice between its branches.
initial_prompt ==
  /\ pc = "initial_expect"
  /\ \E o \in WaitOutcomes("PROMPT", FALSE) :
       LET text == WaitBefore("PROMPT", o) IN
       /\ child_before' = text
       /\ output' = text
       /\ child_buffer' = WaitRest("PROMPT", o)
       /\ lastWait' = o
       /\ discoveryEof' = (o = "eof")
       /\ pc' = IF HasTok(text, "NoFound") THEN "run_check"
                ELSE IF HasTok(text, "FoundSel") THEN "rescan_send"
                ELSE "run_check"
  /\ UNCHANGED <<child_eof, num_devices, devices, device, last_percentage, sent,
                 loaderWait, loaderLog, writeLog, session, progress, matched,
                 trackingEof, pending, answered, child_closed>>

rescan_devices ==
  /\ pc = "rescan_send"
  /\ sent' = Append(sent, Cmd("r", 0, 0))
  /\ lastWait' = "pending"
  /\ pc' = "rescan_expect"
  /\ UNCHANGED <<child_buffer, child_eof, child_before, output, num_devices,
                 devices, device, last_percentage, loaderWait, loaderLog,
                 writeLog, session, progress, matched, trackingEof,
                 discoveryEof, pending, answered, child_closed>>

\* Text the device list is parsed from, given the text before the first
\* prompt and the text before the count-and-prompt line.
DeviceText(first, rescanned) == first

\* initial_prompt after the rescan: the count and the device list.
initial_prompt_rescanned ==
  /\ pc = "rescan_expect"
  /\ \E o \in WaitOutcomes("FOUND", FALSE) :
       /\ child_before' = WaitBefore("FOUND", o)
       /\ child_buffer' = WaitRest("FOUND", o)
       /\ lastWait' = o
       /\ IF o = "match"
          THEN /\ num_devices' = expect(child_buffer, "FOUND").match[1].v
               /\ devices' = parseDevices(DeviceText(output, child_before'))
               /\ pc' = "run_check"
               /\ UNCHANGED <<session, device>>
          ELSE /\ RaiseEOF
               /\ UNCHANGED <<num_devices, devices>>
  /\ UNCHANGED <<child_eof, output, last_percentage, sent, loaderWait,
                 loaderLog, writeLog, progress, matched, trackingEof,
                 discoveryEof, pending, answered, child_closed>>

\* run() ending the session with the error report when the reported count
\* differs from the number of parsed devices.
run_devices_strict ==
  /\ pc = "run_check"
  /\ IF num_devices # Len(devices)
     THEN /\ session' = "error"
          /\ pc' = "done"
          /\ UNCHANGED device
     ELSE IF devices = <<>>
     THEN /\ session' = "no_devices"
          /\ pc' = "done"
          /\ UNCHANGED device
     ELSE Advance(0)
  /\ UNCHANGED <<child_buffer, child_eof, child_before, output, num_devices,
                 devices, last_percentage, sent, lastWait, loaderWait,
                 loaderLog, writeLog, progress, matched, trackingEof,
                 discoveryEof, pending, answered, child_closed>>

\* run() after initial_prompt returned: no devices, or the first device.
run_devices ==
  /\ pc = "run_check"
  /\ IF devices = <<>>
     THEN /\ session' = "no_devices"
          /\ pc' = "done"
          /\ UNCHANGED device
     ELSE Advance(0)
  /\ UNCHANGED <<child_buffer, child_eof, child_before, output, num_devices,
                 devices, last_percentage, sent, lastWait, loaderWait,
                 loaderLog, writeLog, progress, matched, trackingEof,
                 discoveryEof, pending, answered, child_closed>>

\* ---------------------------------------------------------------- per device
\* run_upgrade skipping its wait for the device prompt.
AfterSelect_nowait == "ul_send"

\* Where run_upgrade goes after the selection line: its expect.
AfterSelect == "select_expect"

\* run_upgrade: the selection line.
run_upgrade ==
  /\ pc = "select_send"
  /\ sent' = Append(sent, Cmd("sel", devices[device].devno, device))
  /\ lastWait' = "pending"
  /\ pc' = AfterSelect
  /\ progress' = <<>>
  /\ matched' = 0
  /\ UNCHANGED <<child_buffer, child_eof, child_before, output, num_devices,
                 devices, device, last_percentage, loaderWait, loaderLog,
                 writeLog, session, trackingEof, discoveryEof, pending,
                 answered, child_closed>>

\* run_upgrade: the wait for the device prompt.
run_upgrade_ready ==
  /\ pc = "select_expect"
  /\ \E o \in WaitOutcomes("ROCKUSB", FALSE) :
       /\ child_before' = WaitBefore("ROCKUSB", o)
       /\ child_buffer' = WaitRest("ROCKUSB", o)
       /\ lastWait' = o
       /\ IF o = "match"
          THEN /\ pc' = "ul_send"
               /\ UNCHANGED <<session, device>>
          ELSE RaiseEOF
  /\ UNCHANGED <<child_eof, output, num_devices, devices, last_percentage,
                 sent, loaderWait, loaderLog, writeLog, progress, matched,
                 trackingEof, discoveryEof, pending, answered, child_closed>>

\* send_upgrade_commands, first command.
send_upgrade_commands_ul ==
  /\ pc = "ul_send"
  /\ sent' = Append(sent, Cmd("ul", 0, device))
  /\ lastWait' = "pending"
  /\ pc' = "ul_expect"
  /\ UNCHANGED <<child_buffer, child_eof, child_before, output, num_devices,
                 devices, device, last_percentage, loaderWait, loaderLog,
                 writeLog, session, progress, matched, trackingEof,
                 discoveryEof, pending, answered, child_closed>>

\* What upgrade_loader logs for the text it captured; o is the outcome of
\* the expect, which lists TIMEOUT and so never raises it.
LoaderClass(text, o) ==
  IF HasTok(text, "LoaderOk") THEN "ok"
  ELSE IF HasTok(text, "BootFail") THEN "fail"
  ELSE "unknown"

\* Where send_upgrade_commands goes after upgrade_loader returned.
AfterLoader(class, i) == [pc |-> "wl_send", device |-> i]

upgrade_loader ==
  /\ pc = "ul_expect"
  /\ \E o \in WaitOutcomes("ROCKUSB", TRUE) :
       LET text == WaitBefore("ROCKUSB", o) IN
       /\ child_before' = text
       /\ child_buffer' = WaitRest("ROCKUSB", o)
       /\ lastWait' = o
       /\ loaderWait' = [loaderWait EXCEPT ![device] = o]
       /\ IF o = "eof"
          THEN /\ RaiseEOF
               /\ UNCHANGED loaderLog
          ELSE /\ loaderLog' = [loaderLog EXCEPT ![device] = LoaderClass(text, o)]
               /\ pc' = AfterLoader(LoaderClass(text, o), device).pc
               /\ device' = AfterLoader(LoaderClass(text, o), device).device
               /\ UNCHANGED session
  /\ UNCHANGED <<child_eof, output, num_devices, devices, last_percentage,
                 sent, writeLog, progress, matched, trackingEof, discoveryEof,
                 pending, answered, child_closed>>

\* send_upgrade_commands, second command.
send_upgrade_commands_wl ==
  /\ pc = "wl_send"
  /\ sent' = Append(sent, Cmd("wl", 0, device))
  /\ lastWait' = "pending"
  /\ pc' = "wl_expect"
  /\ UNCHANGED <<child_buffer, child_eof, child_before, output, num_devices,
                 devices, device, last_percentage, loaderWait, loaderLog,
                 writeLog, session, progress, matched, trackingEof,
                 discoveryEof, pending, answered, child_closed>>

\* write_lba entering the progress loop also on a rejected write.
AfterWriteRejected_track(i) == [pc |-> "progress_expect", device |-> i]

\* write_lba on a rejected write: nothing more is done for the device.
AfterWriteRejected(i) == ForNext(i)

write_lba ==
  /\ pc = "wl_expect"
  /\ \E o \in WaitOutcomes("ROCKUSB", TRUE) :
       LET text == WaitBefore("ROCKUSB", o) IN
       /\ child_before' = text
       /\ child_buffer' = WaitRest("ROCKUSB", o)
       /\ lastWait' = o
       /\ IF o = "eof"
          THEN /\ RaiseEOF
               /\ UNCHANGED <<writeLog, last_percentage>>
          ELSE IF HasTok(text, "WriteFail")
          THEN /\ writeLog' = [writeLog EXCEPT ![device] = "failed"]
               /\ pc' = AfterWriteRejected(device).pc
               /\ device' = AfterWriteRejected(device).device
               /\ session' = IF pc' = "done" THEN "completed" ELSE session
               /\ UNCHANGED last_percentage
          ELSE /\ writeLog' = [writeLog EXCEPT ![device] = "writing"]
               /\ last_percentage' = -1
               /\ pc' = "progress_expect"
               /\ UNCHANGED <<session, device>>
  /\ UNCHANGED <<child_eof, output, num_devices, devices, sent, loaderWait,
                 loaderLog, progress, matched, trackingEof, discoveryEof,
                 pending, answered, child_closed>>

\* writing_lba writing every matched percentage.
ShouldReport_always(percentage, last) == TRUE

\* writing_lba writes the percentage to stdout only when it differs from the
\* one written last.
ShouldReport(percentage, last) == percentage # last

\* writing_lba leaving the loop on the EOF index.
AfterTrackingEof_break == "cd_send"

\* Where the loop of writing_lba goes when expect returns the EOF index:
\* neither branch of the body applies, the loop runs again.
AfterTrackingEof == "progress_expect"

\* One iteration of the loop of writing_lba.
writing_lba ==
  /\ pc = "progress_expect"
  /\ \E o \in WaitOutcomes("PROGRESS", FALSE) :
       /\ child_before' = WaitBefore("PROGRESS", o)
       /\ child_buffer' = WaitRest("PROGRESS", o)
       /\ lastWait' = o
       /\ IF o = "match"
          THEN LET progress_percentage == expect(child_buffer, "PROGRESS").match[1].v IN
               /\ matched' = matched + 1
               /\ IF ShouldReport(progress_percentage, last_percentage)
                  THEN /\ last_percentage' = progress_percentage
                       /\ progress' = Append(progress, progress_percentage)
                  ELSE UNCHANGED <<last_percentage, progress>>
               /\ IF progress_percentage = 100
                  THEN /\ writeLog' = [writeLog EXCEPT ![device] = "completed"]
                       /\ pc' = "cd_send"
                  ELSE UNCHANGED <<writeLog, pc>>
               /\ UNCHANGED trackingEof
          ELSE /\ trackingEof' = TRUE
               /\ pc' = AfterTrackingEof
               /\ UNCHANGED <<matched, last_percentage, progress, writeLog>>
  /\ UNCHANGED <<child_eof, output, num_devices, devices, device, sent,
                 loaderWait, loaderLog, session, discoveryEof, pending,
                 answered, child_closed>>

\* writing_lba returning right after `cd`, without expect_initial_prompt.
AfterCd_noresync(i) == ForNext(i)

\* Where writing_lba goes after `cd`: expect_initial_prompt, same device.
AfterCd(i) == [pc |-> "cd_expect", device |-> i]

\* writing_lba after the loop: back to the top-level prompt.
writing_lba_cd ==
  /\ pc = "cd_send"
  /\ sent' = Append(sent, Cmd("cd", 0, device))
  /\ lastWait' = "pending"
  /\ pc' = AfterCd(device).pc
  /\ device' = AfterCd(device).device
  /\ UNCHANGED <<child_buffer, child_eof, child_before, output, num_devices,
                 devices, last_percentage, loaderWait, loaderLog,
                 writeLog, session, progress, matched, trackingEof,
                 discoveryEof, pending, answered, child_closed>>

\* writing_lba: expect_initial_prompt, then the next device of run().
writing_lba_resync ==
  /\ pc = "cd_expect"
  /\ \E o \in WaitOutcomes("PROMPT", FALSE) :
       /\ child_before' = WaitBefore("PROMPT", o)
       /\ child_buffer' = WaitRest("PROMPT", o)
       /\ lastWait' = o
  /\ Advance(device)
  /\ UNCHANGED <<child_eof, output, num_devices, devices, last_percentage,
                 sent, loaderWait, loaderLog, writeLog, progress, matched,
                 trackingEof, discoveryEof, pending, answered, child_closed>>

\* ---------------------------------------------------------------- specification
Controller ==
  \/ initial_prompt
  \/ rescan_devices
  \/ initial_prompt_rescanned
  \/ run_devices
  \/ run_upgrade
  \/ run_upgrade_ready
  \/ send_upgrade_commands_ul
  \/ upgrade_loader
  \/ send_upgrade_commands_wl
  \/ write_lba
  \/ writing_lba
  \/ writing_lba_cd
  \/ writing_lba_resync

Tool == ToolRespond \/ ToolEmit

Next ==
  \/ initial_prompt
  \/ rescan_devices
  \/ initial_prompt_rescanned
  \/ run_devices
  \/ run_upgrade
  \/ run_upgrade_ready
  \/ send_upgrade_commands_ul
  \/ upgrade_loader
  \/ send_upgrade_commands_wl
  \/ write_lba
  \/ writing_lba
  \/ writing_lba_cd
  \/ writing_lba_resync
  \/ ToolRespond
  \/ ToolEmit

Spec == Init /\ [][Next]_vars

\* The controller runs whenever it can, and the tool writes what it has to.
FairSpec == Init /\ [][Next]_vars /\ WF_vars(Controller) /\ WF_vars(Tool)

TypeOK ==
  /\ pc \in {"initial_expect", "rescan_send", "rescan_expect", "run_check",
             "select_send", "select_expect", "ul_send", "ul_expect", "wl_send",
             "wl_expect", "progress_expect", "cd_send", "cd_expect", "done"}
  /\ device \in 0..Len(devices)
  /\ Len(devices) <= MaxDev
  /\ lastWait \in {"none", "pending", "match", "timeout", "eof"}
  /\ session \in {"running", "no_devices", "error", "completed"}

\* ---------------------------------------------------------------- properties
SentFor(c, i) == \E k \in 1..Len(sent) : sent[k].cmd = c /\ sent[k].dev = i

Devs == 1..MaxDev

\* C1: once an expect of the progress loop has returned end-of-stream (no
\* 100% line was matched before it), the session eventually ends with the
\* error report; it does not stay in the loop.
C1_Claim == trackingEof ~> (pc = "done" /\ session = "error")

\* C2: the image-write line is sent for a device only if the text captured
\* for its loader upload held the loader-success marker; with the failure
\* marker or with neither marker no `wl` is sent for it.
C2_Claim == \A i \in Devs : SentFor("wl", i) => loaderLog[i] = "ok"

\* C3: when the wait after the loader upload ends with Timeout, the stage is
\* reported as a timeout, whatever text was captured, and no `wl` is sent for
\* the device.
C3_Claim ==
  \A i \in Devs :
    loaderWait[i] = "timeout" => (loaderLog[i] = "timeout" /\ ~SentFor("wl", i))

\* C4: a recoverable failure on a device (loader failed, unknown response,
\* timeout, write rejected) never blocks the queue: unless the stream ends,
\* the selection line of the next device is eventually sent.
RecoverableFailure(i) ==
  \/ loaderLog[i] \in {"fail", "unknown"}
  \/ loaderWait[i] = "timeout"
  \/ writeLog[i] = "failed"

C4_Claim ==
  \A i \in Devs :
    [](RecoverableFailure(i) /\ i < Len(devices)
         => <>(SentFor("sel", i + 1) \/ child_eof))

\* C5: after the progress loop has met end-of-stream, no line is sent any
\* more, for the current device or a later one.
C5_NoSendAfterTrackingEof == [][trackingEof => sent' = sent]_vars

C5_Witness ==
  /\ trackingEof
  /\ progress = <<40>>
  /\ device < Len(devices)

\* C6: the percentages written for one device never hold the same value
\* twice in a row, however often the stream repeats a progress line.
C6_NoDuplicateProgress ==
  \A j \in 1..(Len(progress) - 1) : progress[j] # progress[j + 1]

C6_Witness ==
  /\ matched > Len(progress)
  /\ progress = <<40>>

\* C7: when the first wait of the discovery ends with end-of-stream, nothing
\* is ever sent to the tool and the session ends with the no-devices report.
C7_Claim ==
  discoveryEof => (sent = <<>> /\ (pc = "done" => session = "no_devices"))

\* C8: a device whose image write was rejected is abandoned: the progress
\* loop is not entered for it, no `cd` is sent for it, and the controller is
\* at a later device or at the end of the run.
C8_WriteRejectedAbandons ==
  \A i \in Devs :
    writeLog[i] = "failed" =>
      /\ ~SentFor("cd", i)
      /\ (device > i \/ pc = "done")

C8_Witness == writeLog[1] = "failed" /\ SentFor("sel", 2)

\* C9 as stated: a line is sent only after the wait for the line before it
\* returned a matched pattern.
C9_Original ==
  [][(Len(sent') > Len(sent) /\ sent # <<>>) => lastWait = "match"]_vars

\* C9: lines are sent one at a time, each only after the wait for the line
\* before it has returned: with a matched pattern, or with Timeout for the
\* bounded waits after `ul` and `wl`, or with end-of-stream for the wait
\* after `cd`.
C9_SendAfterWaitReturned ==
  [][Len(sent') > Len(sent) =>
       /\ Len(sent') = Len(sent) + 1
       /\ \/ sent = <<>>
          \/ lastWait = "match"
          \/ lastWait = "timeout" /\ sent[Len(sent)].cmd \in {"ul", "wl"}
          \/ lastWait = "eof" /\ sent[Len(sent)].cmd = "cd"]_vars

C9_Witness == \E i \in Devs : loaderWait[i] = "timeout" /\ SentFor("wl", i)

\* C10: the device list is the descriptor lines of the text captured while
\* waiting for the count-and-prompt line that follows the rescan.
C10_Claim ==
  (pc = "run_check" /\ sent # <<>>) => devices = parseDevices(child_before)

\* C11: only percentages 0..100 are ever written as progress; a progress
\* line with a marker outside that range (150) produces no progress output.
C11_Claim == \A j \in 1..Len(progress) : progress[j] \in 0..100

\* The exit status of the program: run() returns on every path, main()
\* returns after it, and the interpreter exits with status 0.
ExitStatus == IF pc = "done" THEN 0 ELSE -1

\* C12: the exit status is the normal one when the session ran through its
\* devices or found none, and a different one when the session ended on the
\* fatal end-of-stream.
C12_Claim == pc = "done" => (ExitStatus = 0 <=> session # "error")

\* C13: when the session has ended, on whichever path, the spawned process
\* has been closed.
C13_Claim == pc = "done" => child_closed

\* C14: when the output of a device's image write, 100% line and device
\* prompt included, is in the stream while write_lba waits, the completion
\* of that device is eventually logged.
WholeWriteArrived(i) ==
  /\ device = i
  /\ pc = "wl_expect"
  /\ \E k \in 1..Len(child_buffer) :
       child_buffer[k].k = "Progress" /\ child_buffer[k].v = 100
  /\ HasTok(child_buffer, "Rockusb")

C14_Claim ==
  \A i \in Devs : [](WholeWriteArrived(i) => <>(writeLog[i] = "completed"))

\* C15: `cd` is sent for a device only after its write reached 100%, it is
\* the line sent next after the completion, and the line after `cd` is the
\* selection of the next device, sent only after expect_initial_prompt
\* returned with the prompt or with end-of-stream.
C15_CdThenResync ==
  [][Len(sent') > Len(sent) =>
       LET c == sent'[Len(sent')] IN
       /\ c.cmd = "cd" => writeLog[c.dev] = "completed"
       /\ (device \in Devs /\ writeLog[device] = "completed" /\ ~SentFor("cd", device))
            => c.cmd = "cd"
       /\ (sent # <<>> /\ sent[Len(sent)].cmd = "cd") =>
            /\ c.cmd = "sel"
            /\ c.dev = sent[Len(sent)].dev + 1
            /\ lastWait \in {"match", "eof"}]_vars

C15_Witness == SentFor("cd", 1) /\ SentFor("sel", 2) /\ lastWait = "pending"

\* C16: devices are handled one at a time in the order of self.devices: the
\* lines sent never go back to an earlier device, a device gets at most the
\* lines selection, ul, wl, cd, in that order and once each, each selection
\* is the devno of the device at that position, and nothing is sent for a
\* device before the write of the one before it was rejected or completed.
CommandOrder == <<"sel", "ul", "wl", "cd">>

C16_OneAtATimeInOrder ==
  /\ \A k \in 1..(Len(sent) - 1) :
       sent[k + 1].dev \in {sent[k].dev, sent[k].dev + 1}
  /\ \A i \in Devs :
       LET cs == SelectSeq(sent, LAMBDA c : c.dev = i) IN
       /\ Len(cs) <= Len(CommandOrder)
       /\ \A k \in 1..Len(cs) : cs[k].cmd = CommandOrder[k]
  /\ \A k \in 1..Len(sent) :
       sent[k].cmd = "sel" =>
         /\ sent[k].dev \in 1..Len(devices)
         /\ sent[k].arg = devices[sent[k].dev].devno
  /\ \A k \in 1..Len(sent) :
       sent[k].dev > 1 => writeLog[sent[k].dev - 1] \in {"failed", "completed"}

C16_Witness ==
  /\ SentFor("wl", 2)
  /\ devices = <<RadxaDevice(2), RadxaDevice(1)>>

\* C17: a reported count that differs from the number of parsed devices does
\* not end the session: the session ends with the error report only on
\* end-of-stream, and otherwise with the no-devices report when nothing was
\* parsed, or after having selected every parsed device and only those.
CountMismatch == num_devices > 0 /\ num_devices # Len(devices)

C17_MismatchNotFatal ==
  CountMismatch =>
    /\ session = "error" => child_eof
    /\ (pc = "done" /\ session # "error") =>
         IF devices = <<>>
         THEN session = "no_devices" /\ Len(sent) = 1
         ELSE session = "completed" /\ \A i \in 1..Len(devices) : SentFor("sel", i)
    /\ \A k \in 1..Len(sent) : sent[k].dev <= Len(devices)

C17_Witness ==
  /\ CountMismatch
  /\ Len(devices) = 2
  /\ pc = "done"
  /\ session = "completed"

\* ---------------------------------------------------------------- expected answers
\* The tool answering every line with the expected response: an enumeration
\* with its devices, the device prompt after a selection, the loader success
\* and the prompt after `ul` (within the ceiling of upgrade_loader), progress
\* lines ending with 100% and the prompt after `wl` (after the short wait of
\* write_lba has passed), the top-level prompt after `cd`.
ExpectedEnumerations == {EnumText(e, Len(e)) : e \in Enumerations \ {<<>>}}

ExpectedProgress ==
  {p \in ProgressLines :
     /\ p[Len(p)].v = 100
     /\ \A k \in 1..(Len(p) - 1) : p[k].v < 100}

ExpectedResponses(c) ==
  CASE c = "r"   -> ExpectedEnumerations
    [] c = "sel" -> {<<Tok("Rockusb", 0)>>}
    [] c = "ul"  -> {<<Tok("LoaderOk", 0), Tok("Rockusb", 0)>>}
    [] c = "wl"  -> {p \o <<Tok("Rockusb", 0)>> : p \in ExpectedProgress}
    [] c = "cd"  -> {<<Tok("Rescan", 0)>>}

ExpectedInit == Init /\ pending \in ExpectedEnumerations

ExpectedToolRespond ==
  /\ ToolRespond
  /\ sent[answered + 1].cmd = "wl" => pc = "progress_expect"
  /\ \E r \in ExpectedResponses(sent[answered + 1].cmd) : pending' = pending \o r

\* upgrade_loader when the answer comes within its timeout.
upgrade_loader_answered == upgrade_loader /\ lastWait' # "timeout"

ExpectedController ==
  \/ initial_prompt
  \/ rescan_devices
  \/ initial_prompt_rescanned
  \/ run_devices
  \/ run_upgrade
  \/ run_upgrade_ready
  \/ send_upgrade_commands_ul
  \/ upgrade_loader_answered
  \/ send_upgrade_commands_wl
  \/ write_lba
  \/ writing_lba
  \/ writing_lba_cd
  \/ writing_lba_resync

ExpectedTool == ExpectedToolRespond \/ ToolEmit

ExpectedNext ==
  \/ initial_prompt
  \/ rescan_devices
  \/ initial_prompt_rescanned
  \/ run_devices
  \/ run_upgrade
  \/ run_upgrade_ready
  \/ send_upgrade_commands_ul
  \/ upgrade_loader_answered
  \/ send_upgrade_commands_wl
  \/ write_lba
  \/ writing_lba
  \/ writing_lba_cd
  \/ writing_lba_resync
  \/ ExpectedToolRespond
  \/ ToolEmit

ExpectedSpec ==
  ExpectedInit /\ [][ExpectedNext]_vars
    /\ WF_vars(ExpectedController) /\ WF_vars(ExpectedTool)

\* C18: when the tool gives the expected answer to every line, the session
\* ends, and it ends after the write of every device in self.devices was
\* completed.
C18_ExpectedRunCompletes ==
  <>(/\ pc = "done"
     /\ session = "completed"
     /\ \A i \in 1..Len(devices) : writeLog[i] = "completed" /\ SentFor("cd", i))

C18_Witness ==
  /\ pc = "done"
  /\ session = "completed"
  /\ Len(devices) = MaxDev
  /\ \A i \in 1..Len(devices) : writeLog[i] = "completed"

====
